---- MODULE Spec2Model ----
(***************************************************************************)
(* Traffic-signal coordination service: the shared traffic_state store of  *)
(* System_Code/backend.py (control-plane handlers and the serial reader),  *)
(* the green-time validation of backend.py and traffic_controller.py, and  *)
(* the decision loop of traffic_controller.py.                             *)
(*                                                                         *)
(* Conventions.  Times are whole seconds (the coordinator's clock counts   *)
(* half seconds).  A value that Python may hold as                         *)
(* a float is kept in tenths (Tenths(30) is 30.0).  A JSON or text value   *)
(* is a pair <<kind, n>>: <<"int", n>>, <<"float", tenths>>, <<"str", 0>>  *)
(* (a non-numeric string), <<"numstr", n>> (the string of an integer),     *)
(* <<"null", 0>>, <<"nan", 0>>.  Python's None is the empty tuple.         *)
(***************************************************************************)
EXTENDS Integers, Sequences, FiniteSets, TLC

VARIABLES
    \* traffic_state (backend.py:10-29)
    beacon, priority_lane, beacon_start_time,
    next_green, prev_green, latency_ms, last_update,
    density, density_after, halting, current_times, cycle_progress,
    sensor_status,
    \* serial link (backend.py:32-50, 159-161) and the reader's buffer, kept
    \* as the sequence of complete lines not yet decoded (backend.py:54)
    ser_open, reader_running, esp_start_time, last_esp_data_time, buffer,
    \* wall clock; the most recent observable event: an HTTP exchange
    \* <<operation, status code, command written to the link>> (get_status:
    \* a fourth component, the body), or a line the reader decoded
    \* <<"line", line, outcome>>, the outcome being None or <<"error">> when
    \* the exception reached the handler of the read loop
    now, event,
    \* request threads of the threaded Flask server and the store lock
    lock, thr, acq, wrote,
    \* validation: a request's next_green, the backend's validated_green,
    \* the coordinator's green_times / red_times, and the observation it
    \* builds for the policy
    req_green, validated_green, green_times, red_times, val_raised, reclamped,
    obs,
    \* the coordinator (traffic_controller.py:102-185): its position in the
    \* loop, the state it fetched, the time the iteration began, the latency
    \* it reports, the outcome of its last exchange with the service, its
    \* clock in half seconds, and whether the service answers it
    ctl_pc, data, loop_start, ctl_latency_ms, ctl_log, clock, service_up

sensorVars == <<density, density_after, halting, current_times,
                cycle_progress, sensor_status>>
storeVars == <<beacon, priority_lane, beacon_start_time,
               next_green, prev_green, latency_ms, last_update, sensorVars>>
linkVars  == <<ser_open, reader_running, esp_start_time, last_esp_data_time,
               buffer>>
thrVars   == <<lock, thr, acq, wrote>>
valVars   == <<req_green, validated_green, green_times, red_times,
               val_raised, reclamped, obs>>
coordVars == <<ctl_pc, data, loop_start, ctl_latency_ms, ctl_log, clock,
               service_up>>
vars == <<storeVars, linkVars, now, event, thrVars, valVars, coordVars>>

----------------------------------------------------------------------------
\* Configuration (config.py, repeated in traffic_controller.py:11-15)

CYCLE_TOTAL == 55
YELLOW_TIME == 5
GREEN_MIN == 25
GREEN_MAX == 35
MIN_RED_TIME == 5
BEACON_EXTEND == 30
BEACON_DURATION == 30
DEFAULT_GREEN == 30
NUM_LANES == 4

Lanes == 0 .. (NUM_LANES - 1)

None == <<>>

Tenths(x) == x * 10

----------------------------------------------------------------------------
\* Python conversions

\* int(x): truncation toward zero for a float, ValueError / TypeError /
\* OverflowError otherwise.  The result is [ok, val].
Trunc(t) == IF t >= 0 THEN t \div 10 ELSE -((-t) \div 10)

PyInt(v) ==
    CASE v[1] \in {"int", "numstr"} -> [ok |-> TRUE, val |-> v[2]]
      [] v[1] = "float"             -> [ok |-> TRUE, val |-> Trunc(v[2])]
      [] OTHER                      -> [ok |-> FALSE, val |-> 0]

\* int(text) on a field of a serial line: only the text of an integer
\* converts.
ParseInt(v) ==
    IF v[1] = "int" THEN [ok |-> TRUE, val |-> v[2]]
                    ELSE [ok |-> FALSE, val |-> 0]

\* float(x) in tenths; None and a non-numeric string raise.  NaN converts
\* (it is a float) and is reported by the nan flag.
PyFloat(v) ==
    CASE v[1] \in {"int", "numstr"} ->
              [ok |-> TRUE, nan |-> FALSE, val |-> Tenths(v[2])]
      [] v[1] = "float" -> [ok |-> TRUE, nan |-> FALSE, val |-> v[2]]
      [] v[1] = "nan"   -> [ok |-> TRUE, nan |-> TRUE, val |-> 0]
      [] OTHER          -> [ok |-> FALSE, nan |-> FALSE, val |-> 0]

----------------------------------------------------------------------------
\* Green-time validation

ClampNoUpper(g, lo, hi) == IF g < lo THEN lo ELSE g

\* if g < GREEN_MIN: g = GREEN_MIN / elif g > GREEN_MAX: g = GREEN_MAX
Clamp(g, lo, hi) == IF g < lo THEN lo ELSE IF g > hi THEN hi ELSE g

BackendValidateOneRaw(v) ==
    LET r == PyInt(v) IN IF r.ok THEN r.val ELSE DEFAULT_GREEN

\* backend.py set_next_cycle, the body of the loop: int(g), clamp, and 30
\* when int(g) raises.
BackendValidateOne(v) ==
    LET r == PyInt(v)
    IN  IF r.ok THEN Clamp(r.val, GREEN_MIN, GREEN_MAX) ELSE DEFAULT_GREEN

BackendValidate(gs) == [i \in DOMAIN gs |-> BackendValidateOne(gs[i])]

\* traffic_controller.py validate_green_times, the body of the loop, in
\* tenths.  [raised, g, reclamp]: float(g) or int(g) raised; the stored
\* int(g); whether the red floor was hit and green recomputed.
ControllerValidateOne(v) ==
    LET f  == PyFloat(v)
        g1 == Clamp(f.val, Tenths(GREEN_MIN), Tenths(GREEN_MAX))
        r1 == Tenths(CYCLE_TOTAL) - g1 - 2 * Tenths(YELLOW_TIME)
        fl == r1 < Tenths(MIN_RED_TIME)
        g2 == IF fl
              THEN Clamp(Tenths(CYCLE_TOTAL) - Tenths(MIN_RED_TIME)
                           - 2 * Tenths(YELLOW_TIME),
                         Tenths(GREEN_MIN), Tenths(GREEN_MAX))
              ELSE g1
    IN  IF ~f.ok \/ f.nan
        THEN [raised |-> TRUE, g |-> 0, reclamp |-> FALSE]
        ELSE [raised |-> FALSE, g |-> Trunc(g2), reclamp |-> fl]

\* validate_green_times: the list, or an exception when an element raises.
ControllerValidate(gs) ==
    LET rs == [i \in DOMAIN gs |-> ControllerValidateOne(gs[i])]
    IN  [raised  |-> \E i \in DOMAIN gs : rs[i].raised,
         greens  |-> [i \in DOMAIN gs |-> rs[i].g],
         reclamp |-> \E i \in DOMAIN gs : rs[i].reclamp]

DeriveRedOneYellow(g) ==
    LET red == CYCLE_TOTAL - g - YELLOW_TIME
    IN  IF red > MIN_RED_TIME THEN red ELSE MIN_RED_TIME

\* traffic_controller.py calculate_red_times, one element:
\* max(CYCLE_TOTAL - g - 2 * YELLOW_TIME, MIN_RED_TIME)
DeriveRed(g) ==
    LET red == CYCLE_TOTAL - g - 2 * YELLOW_TIME
    IN  IF red > MIN_RED_TIME THEN red ELSE MIN_RED_TIME

CalculateRedTimes(gs) == [i \in DOMAIN gs |-> DeriveRed(gs[i])]

----------------------------------------------------------------------------
\* Bounds of the model

MaxNow == 40

\* Seconds the clock may advance in one step.
TickSteps == {10, 30}

\* Inputs

I(n) == <<"int", n>>
F(t) == <<"float", t>>
Str == <<"str", 0>>
Null == <<"null", 0>>
NaN == <<"nan", 0>>
NumStr(n) == <<"numstr", n>>
Missing == <<"missing", 0>>

\* The "lane" of a set_lane request body (Missing: no "lane" key).
LaneInputs == {Missing, I(-1), I(0), I(2), I(4), F(15), Str}

\* The payload of an inbound PRIORITY:<payload> line.
PriorityPayloads == {I(1), I(7), Str}

\* The "next_green" of a set_next_cycle request body: absent, not a list,
\* or a list.
ProposalInputs ==
    { <<"missing", <<>> >>,
      <<"scalar", <<>> >>,
      <<"list", <<I(30), I(30), I(30)>> >>,
      <<"list", <<I(35), I(25), I(25), I(25)>> >>,
      <<"list", <<I(20), F(287), I(40), Str>> >> }

LatencyInputs == {7}

\* Lines the field controller sends: <<tag, payload>>.
SerialLines ==
    {<<"PRIORITY", p>> : p \in PriorityPayloads}
      \cup { <<"BEACON_CLEAR", Null>>, <<"BEACON_EXTENDED", Null>>,
             <<"UNKNOWN", Null>> }

----------------------------------------------------------------------------
\* Link

\* A write guarded by "if ser and ser.is_open" inside try/except: the
\* command reaches the wire when the link is open and the write succeeds.
Written(cmd, ok) == IF ser_open /\ ok THEN cmd ELSE None

ExchangeWriteFatal(op, code, sent) ==
    <<op, IF sent = None THEN 500 ELSE code, sent>>

\* What a request leaves behind: handler, HTTP status, command written.
Exchange(op, code, sent) == <<op, code, sent>>

----------------------------------------------------------------------------
\* Control-plane handlers (one request served to completion)

\* "lane < 0 or lane >= len(JUNCTION_MAPPING)"; a str or None operand
\* raises TypeError.
LaneCheck(v) ==
    CASE v[1] = "int"   -> IF v[2] < 0 \/ v[2] >= NUM_LANES
                           THEN "invalid" ELSE "ok"
      [] v[1] = "float" -> IF v[2] < 0 \/ v[2] >= Tenths(NUM_LANES)
                           THEN "invalid" ELSE "ok"
      [] OTHER          -> "raise"

\* JUNCTION_MAPPING[lane] finds a key (an int, or a float equal to one).
IsJunctionKey(v) ==
    \/ v[1] = "int" /\ v[2] \in Lanes
    \/ v[1] = "float" /\ \E l \in Lanes : v[2] = Tenths(l)

SetLaneKeepStart(v, ok) ==
    /\ IF v = Missing \/ LaneCheck(v) = "invalid"
       THEN /\ event' = Exchange("set_lane", 400, None)
            /\ UNCHANGED storeVars
       ELSE IF LaneCheck(v) = "raise"
       THEN /\ event' = Exchange("set_lane", 500, None)
            /\ UNCHANGED storeVars
       ELSE /\ beacon' = TRUE
            /\ priority_lane' = v
            /\ beacon_start_time' = IF beacon THEN beacon_start_time ELSE now
            /\ event' = Exchange("set_lane",
                                 IF IsJunctionKey(v) THEN 200 ELSE 500,
                                 Written(<<"PRIORITY", v>>, ok))
            /\ UNCHANGED <<next_green, prev_green, latency_ms, last_update>>
    /\ UNCHANGED <<sensorVars, linkVars, now, thrVars, valVars, coordVars>>

\* POST /set_lane
SetLane(v, ok) ==
    /\ IF v = Missing \/ LaneCheck(v) = "invalid"
       THEN /\ event' = Exchange("set_lane", 400, None)
            /\ UNCHANGED storeVars
       ELSE IF LaneCheck(v) = "raise"
       THEN /\ event' = Exchange("set_lane", 500, None)
            /\ UNCHANGED storeVars
       ELSE /\ beacon' = TRUE
            /\ priority_lane' = v
            /\ beacon_start_time' = now
            /\ event' = Exchange("set_lane",
                                 IF IsJunctionKey(v) THEN 200 ELSE 500,
                                 Written(<<"PRIORITY", v>>, ok))
            /\ UNCHANGED <<next_green, prev_green, latency_ms, last_update>>
    /\ UNCHANGED <<sensorVars, linkVars, now, thrVars, valVars, coordVars>>

SetNextCycleKeepPrev(p, lat, ok) ==
    /\ IF p[1] # "list" \/ Len(p[2]) # NUM_LANES
       THEN /\ event' = Exchange("set_next_cycle", 400, None)
            /\ UNCHANGED storeVars
       ELSE LET vg == BackendValidate(p[2])
            IN  /\ next_green' = vg
                /\ latency_ms' = lat
                /\ event' = Exchange("set_next_cycle", 200,
                                     Written(<<"NEXT_GREEN", vg>>, ok))
                /\ UNCHANGED <<beacon, priority_lane, beacon_start_time,
                               prev_green, last_update>>
    /\ UNCHANGED <<sensorVars, linkVars, now, thrVars, valVars, coordVars>>

\* set_next_cycle on the store: the format check, the validation and the
\* block under the lock (backend.py:203-242).
NextCycleCommit(p, lat, ok) ==
    IF p[1] # "list" \/ Len(p[2]) # NUM_LANES
    THEN /\ event' = Exchange("set_next_cycle", 400, None)
         /\ UNCHANGED storeVars
    ELSE LET vg == BackendValidate(p[2])
         IN  /\ prev_green' = next_green
             /\ next_green' = vg
             /\ latency_ms' = lat
             /\ event' = Exchange("set_next_cycle", 200,
                                  Written(<<"NEXT_GREEN", vg>>, ok))
             /\ UNCHANGED <<beacon, priority_lane, beacon_start_time,
                            last_update, sensorVars>>

\* POST /set_next_cycle
SetNextCycle(p, lat, ok) ==
    /\ NextCycleCommit(p, lat, ok)
    /\ UNCHANGED <<linkVars, now, thrVars, valVars, coordVars>>

ClearBeaconResetStart ==
    /\ beacon' = FALSE
    /\ priority_lane' = None
    /\ beacon_start_time' = now
    /\ event' = Exchange("clear_beacon", 200, None)
    /\ UNCHANGED <<next_green, prev_green, latency_ms, last_update>>
    /\ UNCHANGED <<sensorVars, linkVars, now, thrVars, valVars, coordVars>>

ClearBeaconKeepLane ==
    /\ beacon' = FALSE
    /\ event' = Exchange("clear_beacon", 200, None)
    /\ UNCHANGED <<priority_lane, beacon_start_time, next_green, prev_green,
                   latency_ms, last_update>>
    /\ UNCHANGED <<sensorVars, linkVars, now, thrVars, valVars, coordVars>>

\* POST /clear_beacon
ClearBeacon ==
    /\ beacon' = FALSE
    /\ priority_lane' = None
    /\ event' = Exchange("clear_beacon", 200, None)
    /\ UNCHANGED <<beacon_start_time, next_green, prev_green, latency_ms,
                   last_update>>
    /\ UNCHANGED <<sensorVars, linkVars, now, thrVars, valVars, coordVars>>

ExtendBeaconUnguarded(ok) ==
    /\ beacon_start_time' = now - BEACON_EXTEND
    /\ event' = Exchange("extend_beacon", 200,
                         Written(<<"EXTEND_BEACON", Null>>, ok))
    /\ UNCHANGED <<beacon, priority_lane, next_green, prev_green,
                   latency_ms, last_update>>
    /\ UNCHANGED <<sensorVars, linkVars, now, thrVars, valVars, coordVars>>

\* POST /extend_beacon
ExtendBeacon(ok) ==
    /\ IF beacon /\ priority_lane # None
       THEN /\ beacon_start_time' = now - BEACON_EXTEND
            /\ event' = Exchange("extend_beacon", 200,
                                 Written(<<"EXTEND_BEACON", Null>>, ok))
            /\ UNCHANGED <<beacon, priority_lane, next_green, prev_green,
                           latency_ms, last_update>>
       ELSE /\ event' = Exchange("extend_beacon", 400, None)
            /\ UNCHANGED storeVars
    /\ UNCHANGED <<sensorVars, linkVars, now, thrVars, valVars, coordVars>>

----------------------------------------------------------------------------
\* Serial reader thread

\* init_serial(): the port opens, or ser becomes None.
InitSerial(opened) == ser_open' = opened

\* The fields of traffic_state a line can write, and whether decoding the
\* line raised out of the "with lock" block.
Cur ==
    [raises |-> FALSE,
     beacon |-> beacon, priority_lane |-> priority_lane,
     beacon_start_time |-> beacon_start_time, latency_ms |-> latency_ms,
     density |-> density, density_after |-> density_after,
     halting |-> halting, current_times |-> current_times,
     cycle_progress |-> cycle_progress, sensor_status |-> sensor_status]

Raise(c) == [c EXCEPT !.raises = TRUE]

AllInts(f, idx) == \A i \in idx : ParseInt(f[i]).ok

IntsAt(f, idx) == [k \in DOMAIN idx |-> ParseInt(f[idx[k]]).val]

\* text[1:] of a field: line[15:] starts one character after the colon of
\* "APPLIED_CYCLE:" and "SENSOR_STATUS:" (14 characters each), so the first
\* field loses its first character.  A one-digit number becomes the empty
\* string, "-5" becomes "5", "30" becomes "0".
DropFirstChar(v) ==
    IF v[1] # "int" THEN v
    ELSE IF v[2] < 0 THEN I(-v[2])
    ELSE IF v[2] < 10 THEN Str
    ELSE IF v[2] < 100 THEN I(v[2] % 10)
    ELSE IF v[2] < 1000 THEN I(v[2] % 100)
    ELSE I(v[2] % 1000)

From15(f) == [k \in DOMAIN f |-> IF k = 1 THEN DropFirstChar(f[k]) ELSE f[k]]

DecodeDensitiesNoLengthCheck(c, f) ==
    IF Len(f) < 8 \/ ~AllInts(f, {1, 3, 5, 7}) THEN Raise(c)
    ELSE LET c1 == [c EXCEPT !.density = IntsAt(f, <<1, 3, 5, 7>>)]
         IN  IF ~AllInts(f, {2, 4, 6, 8}) THEN Raise(c1)
             ELSE [c1 EXCEPT !.density_after = IntsAt(f, <<2, 4, 6, 8>>)]

\* DENSITIES:<fields> (backend.py:76-86): two assignments, each converting
\* its four fields first; a ValueError is not caught here.
DecodeDensities(c, f) ==
    IF Len(f) < 8 THEN c
    ELSE IF ~AllInts(f, {1, 3, 5, 7}) THEN Raise(c)
    ELSE LET c1 == [c EXCEPT !.density = IntsAt(f, <<1, 3, 5, 7>>)]
         IN  IF ~AllInts(f, {2, 4, 6, 8}) THEN Raise(c1)
             ELSE [c1 EXCEPT !.density_after = IntsAt(f, <<2, 4, 6, 8>>)]

\* CYCLE_OBS:<timestamp>:<fields> (backend.py:88-104), payload <<ts, fields>>
\* or <<>> when the line has no second colon; errors are swallowed.
DecodeCycleObs(c, pl) ==
    IF Len(pl) # 2 THEN c
    ELSE IF ~ParseInt(pl[1]).ok THEN c
    ELSE IF Len(pl[2]) < 12 THEN c
    ELSE IF ~AllInts(pl[2], {1, 4, 7, 10}) THEN c
    ELSE LET c1 == [c EXCEPT !.density = IntsAt(pl[2], <<1, 4, 7, 10>>)]
         IN  IF ~AllInts(pl[2], {2, 5, 8, 11}) THEN c1
             ELSE [c1 EXCEPT
                     !.density_after = IntsAt(pl[2], <<2, 5, 8, 11>>),
                     !.halting = <<0, 0, 0, 0>>]

\* PRIORITY:<lane> (backend.py:106-110); int() is not guarded.
DecodePriority(c, v) ==
    IF ~ParseInt(v).ok THEN Raise(c)
    ELSE [c EXCEPT !.beacon = TRUE,
                   !.priority_lane = I(ParseInt(v).val),
                   !.beacon_start_time = now]

\* APPLIED_CYCLE:<fields> (backend.py:112-117); list(map(int, ...)) is not
\* guarded.
DecodeAppliedCycle(c, f) ==
    LET g == From15(f)
    IN  IF ~AllInts(g, DOMAIN g) THEN Raise(c)
        ELSE IF Len(g) # 16 THEN c
        ELSE [c EXCEPT !.current_times =
                 [l \in 1 .. 4 |->
                    [ph \in 1 .. 4 |-> ParseInt(g[4 * (l - 1) + ph]).val]]]

\* PROGRESS:<lane>:<percent> (backend.py:119-130), payload the sequence of
\* the parts; errors are swallowed.
DecodeProgress(c, pl) ==
    IF Len(pl) # 2 THEN c
    ELSE IF ~AllInts(pl, {1, 2}) THEN c
    ELSE LET lane == ParseInt(pl[1]).val
         IN  IF 0 <= lane /\ lane < 4
             THEN [c EXCEPT !.cycle_progress[lane + 1] = ParseInt(pl[2]).val]
             ELSE c

\* LATENCY:<int> (backend.py:132-136); errors are swallowed.
DecodeLatency(c, v) ==
    IF ParseInt(v).ok THEN [c EXCEPT !.latency_ms = ParseInt(v).val] ELSE c

\* SENSOR_STATUS:<fields> (backend.py:145-151); errors are swallowed.
DecodeSensorStatus(c, f) ==
    LET g == From15(f)
    IN  IF ~AllInts(g, DOMAIN g) THEN c
        ELSE IF Len(g) # 8 THEN c
        ELSE [c EXCEPT !.sensor_status =
                 [k \in 1 .. 8 |-> ParseInt(g[k]).val # 0]]

\* The if / elif chain on the line's tag (backend.py:76-151).
Decoded(l) ==
    CASE l[1] = "DENSITIES"     -> DecodeDensities(Cur, l[2])
      [] l[1] = "CYCLE_OBS"     -> DecodeCycleObs(Cur, l[2])
      [] l[1] = "PRIORITY"      -> DecodePriority(Cur, l[2])
      [] l[1] = "APPLIED_CYCLE" -> DecodeAppliedCycle(Cur, l[2])
      [] l[1] = "PROGRESS"      -> DecodeProgress(Cur, l[2])
      [] l[1] = "LATENCY"       -> DecodeLatency(Cur, l[2])
      [] l[1] = "BEACON_CLEAR"  ->
            [Cur EXCEPT !.beacon = FALSE, !.priority_lane = None]
      [] l[1] = "SENSOR_STATUS" -> DecodeSensorStatus(Cur, l[2])
      [] OTHER                  -> Cur

ApplyLineHeartbeatWhenDecoded(l, reopened) ==
    LET d == Decoded(l)
    IN  /\ event' = <<"line", l, IF d.raises THEN <<"error">> ELSE None>>
        /\ last_update' = IF d.raises THEN last_update ELSE now
        /\ last_esp_data_time' = IF d.raises THEN last_esp_data_time ELSE now
        /\ beacon' = d.beacon
        /\ priority_lane' = d.priority_lane
        /\ beacon_start_time' = d.beacon_start_time
        /\ latency_ms' = d.latency_ms
        /\ density' = d.density
        /\ density_after' = d.density_after
        /\ halting' = d.halting
        /\ current_times' = d.current_times
        /\ cycle_progress' = d.cycle_progress
        /\ sensor_status' = d.sensor_status
        /\ IF d.raises THEN InitSerial(reopened) ELSE UNCHANGED ser_open
        /\ UNCHANGED <<next_green, prev_green>>
        /\ UNCHANGED <<reader_running, esp_start_time, now, thrVars, valVars, coordVars>>

\* One non-blank line decoded under the lock (backend.py:72-151).  The
\* heartbeat is written first.  An exception inside the decoder leaves the
\* "with lock" block and reaches the handler of the read loop
\* (backend.py:153-157), which re-initialises the link.
ApplyLine(l, reopened) ==
    LET d == Decoded(l)
    IN  /\ event' = <<"line", l, IF d.raises THEN <<"error">> ELSE None>>
        /\ last_update' = now
        /\ last_esp_data_time' = now
        /\ beacon' = d.beacon
        /\ priority_lane' = d.priority_lane
        /\ beacon_start_time' = d.beacon_start_time
        /\ latency_ms' = d.latency_ms
        /\ density' = d.density
        /\ density_after' = d.density_after
        /\ halting' = d.halting
        /\ current_times' = d.current_times
        /\ cycle_progress' = d.cycle_progress
        /\ sensor_status' = d.sensor_status
        /\ IF d.raises THEN InitSerial(reopened) ELSE UNCHANGED ser_open
        /\ UNCHANGED <<next_green, prev_green>>
        /\ UNCHANGED <<reader_running, esp_start_time, now, thrVars, valVars, coordVars>>

\* One line read into an empty buffer and decoded at once.
SerialLine(l, reopened) ==
    /\ reader_running /\ ser_open
    /\ buffer = <<>>
    /\ ApplyLine(l, reopened)
    /\ UNCHANGED buffer

IsBlank(l) == l[1] = "BLANK"

\* The buffer holds complete lines and, behind them, possibly the first
\* bytes of a line whose newline has not arrived, <<"PARTIAL", l>>.  A
\* chunk may begin with the remaining bytes of a line and its newline,
\* <<"REST", l>>, and end with the first bytes of one.
IsPartial(x) == x[1] = "PARTIAL"

\* '\n' in buffer
HasLine(b) == b # <<>> /\ ~IsPartial(Head(b))

\* The bytes that arrive continue the line the buffer ends with.
Continues(b, chunk) == b # <<>> => chunk[1] = <<"REST", b[1][2]>>

\* buffer += new_data.  The rest of a line joins its first bytes; without
\* them it is a line of no known tag.
Glue(b, chunk) ==
    IF b # <<>> THEN <<b[1][2]>> \o Tail(chunk)
    ELSE [k \in DOMAIN chunk |->
             IF chunk[k][1] = "REST" THEN <<"UNKNOWN", Null>> ELSE chunk[k]]

\* ser.read(ser.in_waiting) appended to the buffer (backend.py:61-64).  The
\* inner loop has drained the buffer of complete lines before the next
\* read.
ReaderRead(chunk) ==
    /\ reader_running /\ ser_open
    /\ ~HasLine(buffer)
    /\ Continues(buffer, chunk)
    /\ buffer' = Glue(buffer, chunk)
    /\ UNCHANGED <<storeVars, ser_open, reader_running, esp_start_time,
                   last_esp_data_time, now, event, thrVars, valVars, coordVars>>

\* One turn of "while '\n' in buffer" (backend.py:66-151): the first line
\* leaves the buffer; a blank line is skipped; the handler of the read
\* loop empties the buffer (backend.py:155).
ReaderLine(reopened) ==
    /\ reader_running /\ ser_open
    /\ HasLine(buffer)
    /\ IF IsBlank(Head(buffer))
       THEN /\ buffer' = Tail(buffer)
            /\ UNCHANGED <<storeVars, ser_open, reader_running,
                           esp_start_time, last_esp_data_time, now, event,
                           thrVars, valVars, coordVars>>
       ELSE /\ ApplyLine(Head(buffer), reopened)
            /\ buffer' = IF Decoded(Head(buffer)).raises
                         THEN <<>> ELSE Tail(buffer)

\* ser.in_waiting or ser.read raises (backend.py:61-62, 153-157).
ReaderReadFails(reopened) ==
    /\ reader_running /\ ser_open
    /\ ~HasLine(buffer)
    /\ buffer' = <<>>
    /\ InitSerial(reopened)
    /\ UNCHANGED <<storeVars, reader_running, esp_start_time,
                   last_esp_data_time, now, event, thrVars, valVars,
                   coordVars>>

\* The disconnected branch of the read loop: a new attempt once more than
\* 30 s have passed since esp_start_time.
ReaderRetry(opened) ==
    /\ reader_running /\ ~ser_open
    /\ now - esp_start_time > 30
    /\ InitSerial(opened)
    /\ esp_start_time' = now
    /\ UNCHANGED <<storeVars, reader_running, last_esp_data_time, buffer,
                   now, event, thrVars, valVars, coordVars>>

Tick(d) ==
    /\ now + d <= MaxNow
    /\ now' = now + d
    /\ UNCHANGED <<storeVars, linkVars, event, thrVars, valVars, coordVars>>

----------------------------------------------------------------------------
\* The store under whole-handler steps

NoThreads == [t \in {} |-> 0]

\* traffic_state as created at import (backend.py:10-29).
InitSensors ==
    /\ density = <<0, 0, 0, 0>>
    /\ density_after = <<0, 0, 0, 0>>
    /\ halting = <<0, 0, 0, 0>>
    /\ current_times = [i \in 1 .. NUM_LANES |-> <<30, 5, 15, 5>>]
    /\ cycle_progress = <<0, 0, 0, 0>>
    /\ sensor_status = [i \in 1 .. 8 |-> TRUE]

\* The coordinator before its first iteration (traffic_controller.py:98-102).
InitCoordinator ==
    /\ ctl_pc = "fetch"
    /\ data = None
    /\ loop_start = 0
    /\ ctl_latency_ms = 0
    /\ ctl_log = "start"
    /\ clock = 0
    /\ service_up = TRUE

Init ==
    /\ beacon = FALSE
    /\ priority_lane = None
    /\ beacon_start_time = 0
    /\ next_green = <<30, 30, 30, 30>>
    /\ prev_green = <<30, 30, 30, 30>>
    /\ latency_ms = 0
    /\ last_update = 0
    /\ InitSensors
    /\ InitCoordinator
    /\ buffer = <<>>
    /\ ser_open \in BOOLEAN
    /\ reader_running = ser_open
    /\ esp_start_time = 0
    /\ last_esp_data_time = 0
    /\ now = 0
    /\ event = <<"start", 0, None>>
    /\ lock = None
    /\ thr = NoThreads
    /\ acq = <<>>
    /\ wrote = <<>>
    /\ req_green = <<>>
    /\ validated_green = <<>>
    /\ green_times = <<>>
    /\ red_times = <<>>
    /\ val_raised = FALSE
    /\ reclamped = FALSE
    /\ obs = <<>>

Next ==
    \/ \E v \in LaneInputs, ok \in BOOLEAN : SetLane(v, ok)
    \/ \E p \in ProposalInputs, lat \in LatencyInputs, ok \in BOOLEAN :
          SetNextCycle(p, lat, ok)
    \/ ClearBeacon
    \/ \E ok \in BOOLEAN : ExtendBeacon(ok)
    \/ \E l \in SerialLines, reopened \in BOOLEAN : SerialLine(l, reopened)
    \/ \E opened \in BOOLEAN : ReaderRetry(opened)
    \/ \E d \in TickSteps : Tick(d)

Spec == Init /\ [][Next]_vars

----------------------------------------------------------------------------
\* The two validators applied to one requested allocation

\* Elements of a requested allocation: below, at and above the limits,
\* fractional, negative, and not numbers.
GreenInputs ==
    { I(-3), I(24), I(25), I(35), I(36), F(249), F(287), F(359),
      NumStr(32), Str, Null, NaN }

\* set_next_cycle lines 213-223 on the request's next_green.
BackendValidateStep ==
    /\ validated_green = <<>>
    /\ validated_green' = BackendValidate(req_green)
    /\ UNCHANGED <<req_green, green_times, red_times, val_raised, reclamped,
                   obs>>
    /\ UNCHANGED <<storeVars, linkVars, now, event, thrVars, coordVars>>

\* traffic_controller.py lines 131-143 on green_times_float: the validated
\* list and its red times, or the default allocation when the call raises.
ControllerValidateStep ==
    /\ green_times = <<>>
    /\ LET r == ControllerValidate(req_green)
           g == IF r.raised
                THEN [i \in 1 .. NUM_LANES |-> DEFAULT_GREEN]
                ELSE r.greens
       IN  /\ green_times' = g
           /\ red_times' = CalculateRedTimes(g)
           /\ val_raised' = r.raised
           /\ reclamped' = (~r.raised /\ r.reclamp)
    /\ UNCHANGED <<req_green, validated_green, obs>>
    /\ UNCHANGED <<storeVars, linkVars, now, event, thrVars, coordVars>>

InitValidate ==
    /\ beacon = FALSE
    /\ priority_lane = None
    /\ beacon_start_time = 0
    /\ next_green = <<30, 30, 30, 30>>
    /\ prev_green = <<30, 30, 30, 30>>
    /\ latency_ms = 0
    /\ last_update = 0
    /\ InitSensors
    /\ InitCoordinator
    /\ buffer = <<>>
    /\ ser_open = FALSE
    /\ reader_running = FALSE
    /\ esp_start_time = 0
    /\ last_esp_data_time = 0
    /\ now = 0
    /\ event = <<"start", 0, None>>
    /\ lock = None
    /\ thr = NoThreads
    /\ acq = <<>>
    /\ wrote = <<>>
    /\ req_green \in [1 .. NUM_LANES -> GreenInputs]
    /\ validated_green = <<>>
    /\ green_times = <<>>
    /\ red_times = <<>>
    /\ val_raised = FALSE
    /\ reclamped = FALSE
    /\ obs = <<>>

NextValidate ==
    \/ BackendValidateStep
    \/ ControllerValidateStep

SpecValidate == InitValidate /\ [][NextValidate]_vars

NonNumeric(v) == v[1] \in {"str", "null", "nan"}

InGreenRange(g) == GREEN_MIN <= g /\ g <= GREEN_MAX

\* C1: every green value validated by set_next_cycle, and every green value
\* the coordinator obtains from validate_green_times, lies in
\* [GREEN_MIN, GREEN_MAX]; set_next_cycle replaces an element that is not a
\* number by 30.
C1_ValidatedInRange ==
    /\ validated_green # <<>> =>
          \A i \in 1 .. NUM_LANES :
             /\ InGreenRange(validated_green[i])
             /\ NonNumeric(req_green[i]) => validated_green[i] = 30
    /\ green_times # <<>> =>
          \A i \in 1 .. NUM_LANES : InGreenRange(green_times[i])

C1_Witness ==
    /\ req_green = <<I(36), Str, I(24), F(287)>>
    /\ validated_green = <<35, 30, 25, 28>>
    /\ green_times # <<>>

\* C2: for validated green times with no re-clamp, the derived red is at
\* least MIN_RED_TIME and green + red + 2 * YELLOW_TIME = CYCLE_TOTAL.
C2_RedCompletesCycle ==
    /\ (green_times # <<>> /\ ~reclamped) =>
          \A i \in 1 .. NUM_LANES :
             /\ red_times[i] >= MIN_RED_TIME
             /\ green_times[i] + red_times[i] + 2 * YELLOW_TIME = CYCLE_TOTAL
    /\ validated_green # <<>> =>
          \A i \in 1 .. NUM_LANES :
             /\ DeriveRed(validated_green[i]) >= MIN_RED_TIME
             /\ validated_green[i] + DeriveRed(validated_green[i])
                  + 2 * YELLOW_TIME = CYCLE_TOTAL

C2_Witness ==
    /\ req_green = <<I(36), F(359), I(24), F(287)>>
    /\ green_times = <<35, 35, 25, 28>>
    /\ red_times = <<10, 10, 20, 17>>
    /\ ~val_raised /\ ~reclamped

\* The red time validate_green_times computes first for a requested value
\* (traffic_controller.py:40-45), in tenths.
FirstPassRed(v) ==
    Tenths(CYCLE_TOTAL)
      - Clamp(PyFloat(v).val, Tenths(GREEN_MIN), Tenths(GREEN_MAX))
      - 2 * Tenths(YELLOW_TIME)

\* C40: with the configured constants validate_green_times never takes its
\* red-floor branch: for every list it validates, the first-pass red of each
\* element is at least CYCLE_TOTAL - GREEN_MAX - 2 * YELLOW_TIME = 10, no
\* re-clamp occurs, and each green with its red from calculate_red_times and
\* the two yellows is exactly CYCLE_TOTAL.
C40_RedFloorUnreachable ==
    /\ ~reclamped
    /\ (green_times # <<>> /\ ~val_raised) =>
          \A i \in 1 .. NUM_LANES :
             /\ FirstPassRed(req_green[i]) >=
                   Tenths(CYCLE_TOTAL - GREEN_MAX - 2 * YELLOW_TIME)
             /\ FirstPassRed(req_green[i]) >= Tenths(MIN_RED_TIME)
             /\ green_times[i] + red_times[i] + 2 * YELLOW_TIME = CYCLE_TOTAL

C40_Witness ==
    /\ green_times # <<>> /\ ~val_raised /\ ~reclamped
    /\ req_green[1] = F(359)
    /\ green_times[1] = GREEN_MAX
    /\ red_times[1] = CYCLE_TOTAL - GREEN_MAX - 2 * YELLOW_TIME
    /\ req_green[2] = I(-3) /\ green_times[2] = GREEN_MIN

----------------------------------------------------------------------------
\* Properties of the store (specification Spec)

\* C3: priority_lane is defined exactly when beacon is true.
C3_LaneIffBeacon == (priority_lane # None) <=> beacon

C3_Witness ==
    /\ event = <<"line", <<"BEACON_CLEAR", Null>>, None>>
    /\ ~beacon /\ priority_lane = None
    /\ beacon_start_time > 0
    /\ next_green # <<30, 30, 30, 30>>

\* C4: every stored next_green value is clamped to [GREEN_MIN, GREEN_MAX].
C4_NextGreenClamped ==
    /\ Len(next_green) = NUM_LANES
    /\ \A i \in 1 .. NUM_LANES : InGreenRange(next_green[i])

C4_Witness ==
    /\ event[1] = "set_next_cycle" /\ event[2] = 200
    /\ next_green = <<25, 28, 35, 30>>
    /\ last_update > 0

ActivateRequest(n) == \E ok \in BOOLEAN : SetLane(I(n), ok)

ActivateLine(n) ==
    \E reopened \in BOOLEAN : SerialLine(<<"PRIORITY", I(n)>>, reopened)

\* C5: an activate for a lane L in 0..3, by request or by PRIORITY:L line,
\* from any beacon state leaves beacon true, priority_lane = L and
\* beacon_start_time = now.
C5_ActivateLastWriteWins ==
    [][ \A L \in Lanes :
           (ActivateRequest(L) \/ ActivateLine(L)) =>
              /\ beacon'
              /\ priority_lane' = I(L)
              /\ beacon_start_time' = now' ]_vars

C5_Witness ==
    /\ event = <<"set_lane", 200, <<"PRIORITY", I(2)>> >>
    /\ beacon /\ priority_lane = I(2)
    /\ beacon_start_time = now /\ now > 0
    /\ last_update > 0 /\ last_update < now

OverrideGreen(L) ==
    [i \in 1 .. NUM_LANES |-> IF i = L + 1 THEN GREEN_MAX ELSE GREEN_MIN]

\* C6: after priority is activated for lane L the store holds the override
\* proposal: next_green[L] = GREEN_MAX and GREEN_MIN for every other lane.
C6_ActivateOverridesNextGreen ==
    [][ \A L \in Lanes :
           (ActivateRequest(L) \/ ActivateLine(L)) =>
              next_green' = OverrideGreen(L) ]_vars

OutOfRangeLanes == {-1, 4, 7}

\* C7: an activate for a lane outside [0,4), by request or by PRIORITY line,
\* causes no transition: beacon, priority_lane and beacon_start_time keep
\* their values.
C7_OutOfRangeNoTransition ==
    [][ \A n \in OutOfRangeLanes :
           (ActivateRequest(n) \/ ActivateLine(n)) =>
              UNCHANGED <<beacon, priority_lane, beacon_start_time>> ]_vars

Active == beacon /\ priority_lane # None

ExtendRequest == \E ok \in BOOLEAN : ExtendBeacon(ok)

\* C9: an extend while Active lowers the elapsed time since activation,
\* now - beacon_start_time, by exactly 30 seconds.
C9_ExtendLowersElapsedBy30 ==
    [][ (Active /\ ExtendRequest) =>
           (now' - beacon_start_time') = (now - beacon_start_time) - 30 ]_vars

\* C10: an extend while Idle answers with an error, changes no field of the
\* store and writes no command to the link.
C10_ExtendIdleChangesNothing ==
    [][ (~beacon /\ ExtendRequest) =>
           /\ event' = <<"extend_beacon", 400, None>>
           /\ UNCHANGED <<storeVars, linkVars>> ]_vars

C10_Witness ==
    /\ event = <<"extend_beacon", 400, None>>
    /\ ~beacon /\ priority_lane = None
    /\ ser_open
    /\ beacon_start_time > 0

ClearLine == \E reopened \in BOOLEAN : SerialLine(<<"BEACON_CLEAR", Null>>, reopened)

\* C11: a clear while Active, by request or by BEACON_CLEAR line, leaves
\* beacon false and priority_lane none; no other field of the store changes,
\* except last_update for the line.
C11_ClearReturnsToIdle ==
    [][ /\ (Active /\ ClearBeacon) =>
             /\ ~beacon' /\ priority_lane' = None
             /\ UNCHANGED <<beacon_start_time, next_green, prev_green,
                            latency_ms, last_update, sensorVars>>
        /\ (Active /\ ClearLine) =>
             /\ ~beacon' /\ priority_lane' = None
             /\ last_update' = now
             /\ UNCHANGED <<beacon_start_time, next_green, prev_green,
                            latency_ms, sensorVars>> ]_vars

C11_Witness ==
    /\ event = <<"clear_beacon", 200, None>>
    /\ ~beacon /\ priority_lane = None
    /\ beacon_start_time > 0
    /\ next_green = <<25, 28, 35, 30>>

\* C12: a clear-priority request is acknowledged when the beacon is Active
\* and answered with an error when the beacon is already Idle.
C12_ClearIdleAnswersError ==
    [][ /\ (Active /\ ClearBeacon) => event'[2] = 200
        /\ (~beacon /\ ClearBeacon) => event'[2] >= 400 ]_vars

Accepted(p) == p[1] = "list" /\ Len(p[2]) = NUM_LANES

ProposalAccepted ==
    \E p \in ProposalInputs, lat \in LatencyInputs, ok \in BOOLEAN :
       Accepted(p) /\ SetNextCycle(p, lat, ok)

\* C14: an accepted proposal sets prev_green to the next_green of the moment
\* before and next_green to the validated green times, and nothing else
\* writes either field: so after accepted proposals p1..pn prev_green is
\* validate(p(n-1)), or the initial [30,30,30,30], and next_green is
\* validate(pn).
C14_ProposalShiftsGreen ==
    [][ /\ \A p \in ProposalInputs, lat \in LatencyInputs, ok \in BOOLEAN :
             (Accepted(p) /\ SetNextCycle(p, lat, ok)) =>
                /\ prev_green' = next_green
                /\ next_green' = BackendValidate(p[2])
        /\ ~ProposalAccepted => UNCHANGED <<next_green, prev_green>> ]_vars

C14_Witness ==
    /\ event[1] = "set_next_cycle" /\ event[2] = 200
    /\ prev_green = <<35, 25, 25, 25>>
    /\ next_green = <<25, 28, 35, 30>>

RequestStep ==
    \/ \E v \in LaneInputs, ok \in BOOLEAN : SetLane(v, ok)
    \/ \E p \in ProposalInputs, lat \in LatencyInputs, ok \in BOOLEAN :
          SetNextCycle(p, lat, ok)
    \/ ExtendRequest
    \/ ClearBeacon

\* C20: a request answered with an error leaves the store unchanged and
\* writes no command to the link.
C20_ErrorLeavesStoreAlone ==
    [][ (RequestStep /\ event'[2] >= 400) =>
           /\ UNCHANGED storeVars
           /\ event'[3] = None ]_vars

\* The outbound write of a request does not reach the wire.
WriteFails(ok) == ~ser_open \/ ~ok

\* C25: when the link is closed or absent, or the write of PRIORITY,
\* NEXT_GREEN or EXTEND_BEACON fails, the request still commits its change
\* to the store and is answered with its normal success response.
C25_WritesAreBestEffort ==
    [][ /\ \A n \in Lanes, ok \in BOOLEAN :
             (WriteFails(ok) /\ SetLane(I(n), ok)) =>
                /\ event' = <<"set_lane", 200, None>>
                /\ beacon' /\ priority_lane' = I(n)
                /\ beacon_start_time' = now
        /\ \A p \in ProposalInputs, lat \in LatencyInputs, ok \in BOOLEAN :
             (WriteFails(ok) /\ Accepted(p) /\ SetNextCycle(p, lat, ok)) =>
                /\ event' = <<"set_next_cycle", 200, None>>
                /\ prev_green' = next_green
                /\ next_green' = BackendValidate(p[2])
                /\ latency_ms' = lat
        /\ \A ok \in BOOLEAN :
             (WriteFails(ok) /\ Active /\ ExtendBeacon(ok)) =>
                /\ event' = <<"extend_beacon", 200, None>>
                /\ beacon_start_time' = now - BEACON_EXTEND ]_vars

C25_Witness ==
    /\ event = <<"extend_beacon", 200, None>>
    /\ ser_open
    /\ Active
    /\ now > 0
    /\ beacon_start_time = now - BEACON_EXTEND

\* What is left of the override window of BEACON_DURATION seconds.
Remaining == BEACON_DURATION - (now - beacon_start_time)

\* C30: an extend while Active sets beacon_start_time to now - 30 s, keeps
\* beacon and priority_lane, and leaves a remaining override window of a
\* full BEACON_DURATION.
C30_ExtendRestoresFullWindow ==
    [][ (Active /\ ExtendRequest) =>
           /\ beacon_start_time' = now - BEACON_EXTEND
           /\ UNCHANGED <<beacon, priority_lane>>
           /\ Remaining' = BEACON_DURATION ]_vars

----------------------------------------------------------------------------
\* The reader with its receive buffer: chunks of complete lines are read
\* into the buffer and decoded one line per step.

DensGood ==
    <<"DENSITIES", <<I(1), I(2), I(3), I(4), I(5), I(6), I(7), I(8)>>>>

DensShort == <<"DENSITIES", <<I(9), I(9), I(9), I(9), I(9)>>>>

DensBadBefore ==
    <<"DENSITIES", <<I(6), I(6), Str, I(6), I(6), I(6), I(6), I(6)>>>>

DensBadAfter ==
    <<"DENSITIES", <<I(7), Str, I(7), I(7), I(7), I(7), I(7), I(7)>>>>

AppliedGood ==
    <<"APPLIED_CYCLE",
      <<I(128), I(5), I(17), I(5), I(30), I(5), I(15), I(5),
        I(30), I(5), I(15), I(5), I(30), I(5), I(15), I(5)>>>>

AppliedBad ==
    <<"APPLIED_CYCLE",
      <<I(128), I(5), Str, I(5), I(30), I(5), I(15), I(5),
        I(30), I(5), I(15), I(5), I(30), I(5), I(15), I(5)>>>>

SensorGood ==
    <<"SENSOR_STATUS", <<I(10), I(0), I(1), I(1), I(1), I(1), I(1), I(1)>>>>

SensorBad ==
    <<"SENSOR_STATUS", <<I(10), Str, I(1), I(1), I(1), I(1), I(1), I(1)>>>>

\* Lines of a recognized tag with a non-numeric field.
MalformedLines ==
    {DensBadBefore, DensBadAfter, <<"PRIORITY", Str>>, AppliedBad,
     <<"LATENCY", Str>>, SensorBad}

ReaderLines ==
    MalformedLines \cup
    {DensGood, DensShort, AppliedGood, SensorGood,
     <<"UNKNOWN", Null>>, <<"BLANK", Null>>}

\* What one read can bring: a line alone, or a line with DensGood behind it.
Chunks ==
    {<<l>> : l \in ReaderLines} \cup
    {<<l, DensGood>> :
        l \in MalformedLines \cup {DensShort, <<"BLANK", Null>>}}

NextReader ==
    \/ \E chunk \in Chunks : ReaderRead(chunk)
    \/ \E reopened \in BOOLEAN : ReaderLine(reopened)
    \/ \E reopened \in BOOLEAN : ReaderReadFails(reopened)
    \/ \E opened \in BOOLEAN : ReaderRetry(opened)
    \/ \E d \in TickSteps : Tick(d)

SpecReader == Init /\ [][NextReader]_vars

ShortDensities(l) == l[1] = "DENSITIES" /\ Len(l[2]) < 8

HeadShort == buffer # <<>> /\ ShortDensities(Head(buffer))

HeadMalformed == buffer # <<>> /\ Head(buffer) \in MalformedLines

DecodeStep == \E reopened \in BOOLEAN : ReaderLine(reopened)

\* C13: decoding a DENSITIES line with fewer than 8 fields leaves density and
\* density_after unchanged and raises no error: the lines behind it stay in
\* the buffer to be decoded and the link is not re-initialised.
C13_ShortDensitiesIgnored ==
    [][ (HeadShort /\ DecodeStep) =>
           /\ UNCHANGED <<density, density_after>>
           /\ event'[3] = None
           /\ buffer' = Tail(buffer)
           /\ UNCHANGED ser_open ]_vars

C13_Witness ==
    /\ event = <<"line", DensShort, None>>
    /\ buffer = <<DensGood>>
    /\ density = <<1, 3, 5, 7>> /\ density_after = <<2, 4, 6, 8>>
    /\ ser_open

\* C17: decoding a malformed line of a recognized tag raises no error out of
\* the decoder: the lines behind it stay in the buffer to be decoded and the
\* link is not re-initialised.
C17_MalformedDroppedAlone ==
    [][ (HeadMalformed /\ DecodeStep) =>
           /\ event'[3] = None
           /\ buffer' = Tail(buffer)
           /\ UNCHANGED ser_open ]_vars

\* The lines that leave the buffer in this step.
Consumed == SubSeq(buffer, 1, Len(buffer) - Len(buffer'))

\* C18: whenever non-blank lines leave the receive buffer, whatever their
\* tag and payload, last_update and the heartbeat time read by get_status
\* become the current time.
C18_EveryLineIsHeartbeat ==
    [][ (/\ Len(buffer') < Len(buffer)
         /\ \E i \in DOMAIN Consumed : ~IsBlank(Consumed[i])) =>
           /\ last_update' = now
           /\ last_esp_data_time' = now ]_vars

C18_Witness ==
    /\ event = <<"line", <<"PRIORITY", Str>>, <<"error">>>>
    /\ now > 0
    /\ last_update = now /\ last_esp_data_time = now

\* The handler of the read loop has tried to open the link and failed, after
\* a line raised in the decoder: the heartbeat of that line is the time of
\* the attempt (backend.py:73-74, 153-157).
HandlerAttemptFailed ==
    /\ ~ser_open
    /\ event[1] = "line" /\ event[3] = <<"error">>

\* An attempt of the disconnected branch (backend.py:159-161).
RetryAttempt == ~ser_open /\ esp_start_time' # esp_start_time

\* The latest attempt known to have been made while the link is down.
LastAttemptSeen ==
    IF last_esp_data_time > esp_start_time
    THEN last_esp_data_time ELSE esp_start_time

\* C31: while the link is disconnected, an attempt to open it in the
\* disconnected branch of the reader loop comes at least 30 seconds after
\* the previous attempt, the attempt of the read-error handler included.
C31_OpenAttemptsThrottled ==
    [][ (HandlerAttemptFailed /\ RetryAttempt) =>
           now - LastAttemptSeen >= 30 ]_vars

\* The count fields of a DENSITIES or CYCLE_OBS line.
CountFields(l) ==
    IF l[1] = "DENSITIES" THEN l[2]
    ELSE IF Len(l[2]) = 2 THEN l[2][2] ELSE <<>>

HeadCounts ==
    /\ HasLine(buffer)
    /\ Head(buffer)[1] \in {"DENSITIES", "CYCLE_OBS"}

\* Some field of the line is not the text of an integer.
HeadFailsToParse ==
    \E k \in DOMAIN CountFields(Head(buffer)) :
       ~ParseInt(CountFields(Head(buffer))[k]).ok

\* C36: decoding a DENSITIES or CYCLE_OBS line of which some field fails to
\* parse leaves density, density_after and halting all unchanged: density
\* is never taken from a line whose density_after was not applied.
C36_LineAppliedAtomically ==
    [][ (HeadCounts /\ HeadFailsToParse /\ DecodeStep) =>
           UNCHANGED <<density, density_after, halting>> ]_vars

\* The reader on a stream of well-formed lines that the reads cut anywhere:
\* between lines or inside one.

\* An applied cycle whose first duration has one digit.
AppliedOneDigit ==
    <<"APPLIED_CYCLE",
      <<I(5), I(5), I(40), I(5), I(30), I(5), I(15), I(5),
        I(30), I(5), I(15), I(5), I(30), I(5), I(15), I(5)>>>>

StreamLines ==
    {DensGood, <<"PRIORITY", I(1)>>, AppliedOneDigit, <<"BLANK", Null>>}

StreamChunks ==
    {<<l>> : l \in StreamLines}
    \cup {<<l, m>> : l \in StreamLines, m \in StreamLines}
    \cup {<<<<"PARTIAL", l>>>> : l \in StreamLines}
    \cup {<<<<"REST", l>>>> : l \in StreamLines}
    \cup {<<<<"REST", l>>, m>> : l \in StreamLines, m \in StreamLines}
    \cup {<<l, <<"PARTIAL", m>>>> : l \in StreamLines, m \in StreamLines}

NextStream ==
    \/ \E chunk \in StreamChunks : ReaderRead(chunk)
    \/ \E reopened \in BOOLEAN : ReaderLine(reopened)

SpecStream == Init /\ [][NextStream]_vars

ReadStep == \E chunk \in StreamChunks : ReaderRead(chunk)

\* C35: however the reads cut the stream, a read only extends the buffer,
\* keeping an incomplete last line in it, and applies nothing; each decoding
\* step takes the first complete line of the buffer, applies it as one
\* event unless it is blank, and leaves the lines behind it in the buffer.
C35_ChunkingIrrelevant ==
    [][ /\ ReadStep =>
              /\ UNCHANGED <<storeVars, event>>
              /\ buffer # <<>> => Head(buffer') = buffer[1][2]
        /\ DecodeStep =>
              /\ ~IsPartial(Head(buffer))
              /\ buffer' = Tail(buffer)
              /\ IF IsBlank(Head(buffer)) THEN UNCHANGED <<storeVars, event>>
                 ELSE event' = <<"line", Head(buffer), None>> ]_vars

\* The link manager when the serial port is missing at start-up and becomes
\* available later, for good: serial.Serial() fails at time 0 and succeeds
\* from then on.  The start-up loop (backend.py:46-50) has ended with the
\* port open or with ser = None, and the reader thread exists only in the
\* first case (backend.py:164-165).
PortAvailable == now > 0

LinkChunks ==
    {<<DensGood>>, <<<<"PRIORITY", I(1)>>>>, <<<<"PRIORITY", Str>>>>,
     <<<<"BEACON_CLEAR", Null>>>>}

NextLink ==
    \/ \E chunk \in LinkChunks : ReaderRead(chunk)
    \/ ReaderLine(PortAvailable)
    \/ ReaderReadFails(PortAvailable)
    \/ ReaderRetry(PortAvailable)
    \/ \E d \in TickSteps : Tick(d)

\* Time passes, and the reader thread, once started, keeps running.
SpecLink ==
    /\ Init
    /\ [][NextLink]_vars
    /\ WF_vars(\E d \in TickSteps : Tick(d))
    /\ WF_vars(ReaderRetry(TRUE))
    /\ WF_vars(ReaderLine(TRUE))

\* C32: from every disconnected state, the one left by a failed start-up
\* included, once the serial port is available and stays so the link is
\* eventually open again with the reader running on it.
C32_LinkRecovers == (~ser_open) ~> (ser_open /\ reader_running)

----------------------------------------------------------------------------
\* The decoder on SENSOR_STATUS, APPLIED_CYCLE and PROGRESS lines.

SensorZeroFirst ==
    <<"SENSOR_STATUS", <<I(0), I(1), I(1), I(1), I(1), I(1), I(1), I(0)>>>>

SensorNine ==
    <<"SENSOR_STATUS",
      <<I(10), I(0), I(0), I(0), I(0), I(0), I(0), I(0), I(0)>>>>

\* What the field controller reports for the default cycle.
AppliedDefault ==
    <<"APPLIED_CYCLE",
      <<I(30), I(5), I(15), I(5), I(30), I(5), I(15), I(5),
        I(30), I(5), I(15), I(5), I(30), I(5), I(15), I(5)>>>>

AppliedOutOfRange ==
    <<"APPLIED_CYCLE",
      <<I(128), I(5), I(17), I(5), I(40), I(5), I(5), I(5),
        I(30), I(5), I(15), I(5), I(30), I(5), I(15), I(5)>>>>

AppliedFifteen ==
    <<"APPLIED_CYCLE",
      <<I(25), I(5), I(20), I(5), I(25), I(5), I(20), I(5),
        I(25), I(5), I(20), I(5), I(25), I(5), I(20)>>>>

ProgressLines ==
    {<<"PROGRESS", <<I(1), I(50)>>>>, <<"PROGRESS", <<I(1), I(250)>>>>,
     <<"PROGRESS", <<I(0), I(-5)>>>>, <<"PROGRESS", <<I(4), I(50)>>>>,
     <<"PROGRESS", <<I(-1), I(50)>>>>, <<"PROGRESS", <<I(1), Str>>>>,
     <<"PROGRESS", <<I(1), I(50), I(2)>>>>}

DecodeLines ==
    {SensorGood, SensorBad, SensorZeroFirst, SensorNine,
     AppliedGood, AppliedDefault, AppliedOutOfRange, AppliedFifteen}
       \cup ProgressLines

NextDecode ==
    \E l \in DecodeLines, reopened \in BOOLEAN : SerialLine(l, reopened)

SpecDecode == Init /\ [][NextDecode]_vars

Received(tag, l) ==
    l[1] = tag /\ \E reopened \in BOOLEAN : SerialLine(l, reopened)

IntFields(l, n) == Len(l[2]) = n /\ AllInts(l[2], 1 .. n)

\* C26: a SENSOR_STATUS line with exactly 8 integer fields sets
\* sensor_status[i] to (v_i # 0) for every i, the first field and one-digit
\* values included; a line with another field count leaves sensor_status
\* unchanged.
C26_SensorStatusCoerced ==
    [][ \A l \in DecodeLines :
           Received("SENSOR_STATUS", l) =>
              /\ IntFields(l, 8) =>
                    sensor_status' =
                       [k \in 1 .. 8 |-> ParseInt(l[2][k]).val # 0]
              /\ Len(l[2]) # 8 => UNCHANGED sensor_status ]_vars

\* C27: an APPLIED_CYCLE line with exactly 16 integer fields sets
\* current_times[l][p] to field 4*l+p, the first field included; a line with
\* another field count leaves current_times unchanged.
C27_AppliedCycleStored ==
    [][ \A l \in DecodeLines :
           Received("APPLIED_CYCLE", l) =>
              /\ IntFields(l, 16) =>
                    current_times' =
                       [ln \in 1 .. 4 |->
                          [ph \in 1 .. 4 |->
                             ParseInt(l[2][4 * (ln - 1) + ph]).val]]
              /\ Len(l[2]) # 16 => UNCHANGED current_times ]_vars

SumOf(q) == q[1] + q[2] + q[3] + q[4]

\* C28: in every reachable state, for every lane, the green duration of
\* current_times is in [GREEN_MIN, GREEN_MAX] and the four durations sum to
\* CYCLE_TOTAL.
C28_CurrentTimesWellFormed ==
    \A i \in 1 .. NUM_LANES :
       /\ current_times[i][1] \in GREEN_MIN .. GREEN_MAX
       /\ SumOf(current_times[i]) = CYCLE_TOTAL

\* C29: cycle_progress[i] is always in 0..100, and a PROGRESS line changes
\* cycle_progress only at its own lane and only when 0 <= lane < 4.
C29_ProgressBounded ==
    [][ /\ \A i \in 1 .. NUM_LANES : cycle_progress'[i] \in 0 .. 100
        /\ \A l \in DecodeLines :
             Received("PROGRESS", l) =>
                \A i \in 1 .. NUM_LANES :
                   cycle_progress'[i] # cycle_progress[i] =>
                      /\ Len(l[2]) = 2
                      /\ ParseInt(l[2][1]).ok
                      /\ ParseInt(l[2][1]).val \in Lanes
                      /\ i = ParseInt(l[2][1]).val + 1 ]_vars

----------------------------------------------------------------------------
\* GET /status beside the reader, on a clock fine enough to pass the
\* heartbeat threshold.

HEARTBEAT_TIMEOUT == 5

Bool(b) == <<"bool", b>>

\* Python truth of a response value: None (JSON null) and False are falsy.
Truthy(v) == v[1] = "bool" /\ v[2]

EspConnectedIgnoringLink ==
    Bool(now - last_esp_data_time < HEARTBEAT_TIMEOUT)

EspConnectedInclusive ==
    IF ~ser_open THEN Null
    ELSE Bool(now - last_esp_data_time <= HEARTBEAT_TIMEOUT)

\* ser and ser.is_open and (current_time - last_esp_data_time) < 5.0
\* (backend.py:269): with ser None the expression is None, which jsonify
\* sends as null.
EspConnected ==
    IF ~ser_open THEN Null
    ELSE Bool(now - last_esp_data_time < HEARTBEAT_TIMEOUT)

\* GET /status (backend.py:266-285); the event keeps "esp_connected" of the
\* body.
GetStatus ==
    /\ event' = <<"get_status", 200, None, EspConnected>>
    /\ UNCHANGED <<storeVars, linkVars, now, thrVars, valVars, coordVars>>

StatusLines == {<<"UNKNOWN", Null>>, <<"PRIORITY", Str>>}

StatusTickSteps == {2, 3}

NextStatus ==
    \/ GetStatus
    \/ \E l \in StatusLines, reopened \in BOOLEAN : SerialLine(l, reopened)
    \/ \E reopened \in BOOLEAN : ReaderReadFails(reopened)
    \/ \E opened \in BOOLEAN : ReaderRetry(opened)
    \/ \E d \in StatusTickSteps : Tick(d)

SpecStatus == Init /\ [][NextStatus]_vars

Age == now - last_update

\* C15 as written: the connectivity flag of get status is true exactly when
\* now - last_update < 5 s, whatever the state of the link.
C15_FlagIgnoresLink ==
    [][ GetStatus => (Truthy(event'[4]) <=> Age < HEARTBEAT_TIMEOUT) ]_vars

\* C15 amended: the connectivity flag of get status is false whenever
\* now - last_update >= 5 s; when now - last_update < 5 s it follows the
\* link: true with the link open, false with the link closed or absent.
C15_FlagFalseWhenStale ==
    [][ GetStatus =>
          /\ Age >= HEARTBEAT_TIMEOUT => ~Truthy(event'[4])
          /\ Age < HEARTBEAT_TIMEOUT => (Truthy(event'[4]) <=> ser_open) ]_vars

C15_Witness ==
    /\ event = <<"get_status", 200, None, Bool(FALSE)>>
    /\ ser_open
    /\ last_update > 0
    /\ Age = HEARTBEAT_TIMEOUT

\* C16: the connectivity flag of get status is true exactly when the link is
\* open and now - last_update < 5 s; with the link closed or absent it is
\* false even if a line arrived less than 5 s ago.
C16_FlagIsLinkAndFresh ==
    [][ GetStatus =>
          (Truthy(event'[4]) <=> (ser_open /\ Age < HEARTBEAT_TIMEOUT)) ]_vars

C16_Witness ==
    /\ event = <<"get_status", 200, None, Null>>
    /\ ~ser_open
    /\ last_update > 0
    /\ Age < HEARTBEAT_TIMEOUT

----------------------------------------------------------------------------
\* The coordinator's decision loop (traffic_controller.py:102-185) beside
\* the service.  The coordinator's clock counts half seconds; the store's
\* clock is the same time in whole seconds.

\* Durations in half seconds.
REQUEST_TIMEOUT == 2
SLEEP_BAD_STATUS == 2
SLEEP_NO_CONNECTION == 4
SLEEP_BEACON == 1
DECISION_INTERVAL == 10

MaxClock == 24

\* The clock after d half seconds; it stops at MaxClock.
After(d) == IF clock + d > MaxClock THEN MaxClock ELSE clock + d

Advance(d) ==
    /\ clock' = After(d)
    /\ now' = After(d) \div 2

DefaultGreens == [i \in 1 .. NUM_LANES |-> DEFAULT_GREEN]

\* np.clip(action, 0.0, 1.0), one element in tenths; NaN stays NaN.
ClipUnit(a) ==
    IF a = NaN THEN NaN
    ELSE F(IF a[2] < 0 THEN 0 ELSE IF a[2] > 10 THEN 10 ELSE a[2])

\* float(GREEN_MIN + a * (GREEN_MAX - GREEN_MIN)), in tenths.
GreenFloat(a) ==
    IF a = NaN THEN NaN
    ELSE F(Tenths(GREEN_MIN) + a[2] * (GREEN_MAX - GREEN_MIN))

GreenTimesFloat(action) ==
    [i \in DOMAIN action |-> GreenFloat(ClipUnit(action[i]))]

\* What model.predict can give: an exception, or an action vector.
PolicyOutputs ==
    {<<"throw", <<>>>>,
     <<"action", <<F(0), F(3), F(20), F(-5)>>>>,
     <<"action", <<F(3), F(3), F(3)>>>>}

\* Durations of the policy call, in half seconds.
PolicyDurations == {2, 12}

\* The try block of lines 131-138 raises.
PolicyRaises(out) ==
    out[1] = "throw" \/ ControllerValidate(GreenTimesFloat(out[2])).raised

\* The coordinator's green_times as the JSON list of the request.
AsJsonList(g) == <<"list", [i \in DOMAIN g |-> I(g[i])]>>

CoordFetchMissesBeacon(outcome) ==
    /\ ctl_pc = "fetch"
    /\ outcome = "ok" /\ service_up
    /\ loop_start' = clock
    /\ data' = [beacon |-> FALSE, priority_lane |-> None]
    /\ event' = Exchange("get", 200, None)
    /\ ctl_pc' = "check"
    /\ ctl_log' = "fetched"
    /\ UNCHANGED <<storeVars, linkVars, now, thrVars, valVars, ctl_latency_ms,
                   clock, service_up>>

CoordFetchStopsOnError(outcome) ==
    /\ ctl_pc = "fetch"
    /\ loop_start' = clock
    /\ CASE outcome = "ok" ->
              /\ service_up
              /\ data' = [beacon |-> beacon, priority_lane |-> priority_lane]
              /\ event' = Exchange("get", 200, None)
              /\ ctl_pc' = "check"
              /\ ctl_log' = "fetched"
              /\ UNCHANGED <<clock, now>>
         [] outcome = "status" ->
              /\ ~service_up
              /\ ctl_pc' = "sleep_status"
              /\ ctl_log' = "fetch_status"
              /\ UNCHANGED <<data, event, clock, now>>
         [] outcome = "timeout" ->
              /\ ~service_up
              /\ Advance(REQUEST_TIMEOUT)
              /\ ctl_pc' = "stopped"
              /\ ctl_log' = "fetch_error"
              /\ UNCHANGED <<data, event>>
    /\ UNCHANGED <<storeVars, linkVars, thrVars, valVars, ctl_latency_ms,
                   service_up>>

\* requests.get(BACKEND_URL/get, timeout=1.0) (lines 104-114).
CoordFetch(outcome) ==
    /\ ctl_pc = "fetch"
    /\ loop_start' = clock
    /\ CASE outcome = "ok" ->
              /\ service_up
              /\ data' = [beacon |-> beacon, priority_lane |-> priority_lane]
              /\ event' = Exchange("get", 200, None)
              /\ ctl_pc' = "check"
              /\ ctl_log' = "fetched"
              /\ UNCHANGED <<clock, now>>
         [] outcome = "status" ->
              /\ ~service_up
              /\ ctl_pc' = "sleep_status"
              /\ ctl_log' = "fetch_status"
              /\ UNCHANGED <<data, event, clock, now>>
         [] outcome = "timeout" ->
              /\ ~service_up
              /\ Advance(REQUEST_TIMEOUT)
              /\ ctl_pc' = "sleep_error"
              /\ ctl_log' = "fetch_error"
              /\ UNCHANGED <<data, event>>
    /\ UNCHANGED <<storeVars, linkVars, thrVars, valVars, ctl_latency_ms,
                   service_up>>

CoordCheckIgnoresBeacon ==
    /\ ctl_pc = "check"
    /\ ctl_pc' = "policy" /\ UNCHANGED ctl_log
    /\ UNCHANGED <<storeVars, linkVars, now, event, thrVars, valVars, data,
                   loop_start, ctl_latency_ms, clock, service_up>>

\* The beacon test on the fetched state (lines 116-122).
CoordCheck ==
    /\ ctl_pc = "check"
    /\ IF data.beacon /\ data.priority_lane # None
       THEN ctl_pc' = "sleep_beacon" /\ ctl_log' = "skipped"
       ELSE ctl_pc' = "policy" /\ UNCHANGED ctl_log
    /\ UNCHANGED <<storeVars, linkVars, now, event, thrVars, valVars, data,
                   loop_start, ctl_latency_ms, clock, service_up>>

\* The policy call and the validation (lines 130-143), taking d half
\* seconds.
CoordPolicy(out, d) ==
    /\ ctl_pc = "policy"
    /\ Advance(d)
    /\ LET g == IF PolicyRaises(out) THEN DefaultGreens
                ELSE ControllerValidate(GreenTimesFloat(out[2])).greens
       IN  /\ green_times' = g
           /\ red_times' = CalculateRedTimes(g)
    /\ val_raised' = PolicyRaises(out)
    /\ ctl_latency_ms' = IF PolicyRaises(out) THEN 0 ELSE 500 * d
    /\ ctl_pc' = "submit"
    /\ UNCHANGED <<storeVars, linkVars, event, thrVars, req_green,
                   validated_green, reclamped, obs, data, loop_start,
                   ctl_log, service_up>>

\* requests.post(BACKEND_URL/set_next_cycle, ...) (lines 145-170).
CoordSubmit(outcome, ok) ==
    /\ ctl_pc = "submit"
    /\ CASE outcome = "ok" ->
              /\ service_up
              /\ NextCycleCommit(AsJsonList(green_times), ctl_latency_ms, ok)
              /\ ctl_log' = IF Len(green_times) = NUM_LANES
                            THEN "submitted" ELSE "rejected"
              /\ UNCHANGED <<clock, now>>
         [] outcome = "timeout" ->
              /\ ~service_up
              /\ Advance(REQUEST_TIMEOUT)
              /\ ctl_log' = "submit_error"
              /\ UNCHANGED <<storeVars, event>>
    /\ ctl_pc' = "sleep_interval"
    /\ UNCHANGED <<linkVars, thrVars, valVars, data, loop_start,
                   ctl_latency_ms, service_up>>

\* The time.sleep the iteration ends with (lines 108, 113, 121, 172).
SleepOf(pc) ==
    CASE pc = "sleep_status"   -> SLEEP_BAD_STATUS
      [] pc = "sleep_error"    -> SLEEP_NO_CONNECTION
      [] pc = "sleep_beacon"   -> SLEEP_BEACON
      [] pc = "sleep_interval" -> DECISION_INTERVAL

Sleeping ==
    ctl_pc \in {"sleep_status", "sleep_error", "sleep_beacon",
                "sleep_interval"}

CoordSleep ==
    /\ Sleeping
    /\ Advance(SleepOf(ctl_pc))
    /\ ctl_pc' = "fetch"
    /\ UNCHANGED <<storeVars, linkVars, event, thrVars, valVars, data,
                   loop_start, ctl_latency_ms, ctl_log, service_up>>

\* The service stops or starts answering the coordinator.
ServiceChange ==
    /\ service_up' = ~service_up
    /\ UNCHANGED <<storeVars, linkVars, now, event, thrVars, valVars,
                   ctl_pc, data, loop_start, ctl_latency_ms, ctl_log, clock>>

CoordStep ==
    \/ \E outcome \in {"ok", "status", "timeout"} : CoordFetch(outcome)
    \/ CoordCheck
    \/ \E out \in PolicyOutputs, d \in PolicyDurations : CoordPolicy(out, d)
    \/ \E outcome \in {"ok", "timeout"} : CoordSubmit(outcome, TRUE)
    \/ CoordSleep

NextCoord ==
    \/ \E outcome \in {"ok", "status", "timeout"} : CoordFetch(outcome)
    \/ CoordCheck
    \/ \E out \in PolicyOutputs, d \in PolicyDurations : CoordPolicy(out, d)
    \/ \E outcome \in {"ok", "timeout"} : CoordSubmit(outcome, TRUE)
    \/ CoordSleep
    \/ ServiceChange
    \/ SetLane(I(0), TRUE)
    \/ ClearBeacon

\* The service runs with its link open.
InitCoord == Init /\ ser_open

SpecCoord == InitCoord /\ [][NextCoord]_vars

\* The loop late in a run: the clock has reached MaxClock, where it stops,
\* and the store is as the service created it.
InitCoordLate ==
    /\ beacon = FALSE
    /\ priority_lane = None
    /\ beacon_start_time = 0
    /\ next_green = <<30, 30, 30, 30>>
    /\ prev_green = <<30, 30, 30, 30>>
    /\ latency_ms = 0
    /\ last_update = 0
    /\ InitSensors
    /\ buffer = <<>>
    /\ ser_open = TRUE
    /\ reader_running = TRUE
    /\ esp_start_time = 0
    /\ last_esp_data_time = 0
    /\ now = MaxClock \div 2
    /\ event = <<"start", 0, None>>
    /\ lock = None
    /\ thr = NoThreads
    /\ acq = <<>>
    /\ wrote = <<>>
    /\ req_green = <<>>
    /\ validated_green = <<>>
    /\ green_times = <<>>
    /\ red_times = <<>>
    /\ val_raised = FALSE
    /\ reclamped = FALSE
    /\ obs = <<>>
    /\ ctl_pc = "fetch"
    /\ data = None
    /\ loop_start = MaxClock
    /\ ctl_latency_ms = 0
    /\ ctl_log = "start"
    /\ clock = MaxClock
    /\ service_up \in BOOLEAN

\* The coordinator is a running process: it always takes its next step.
SpecCoordLive == InitCoordLate /\ [][NextCoord]_vars /\ WF_vars(CoordStep)

\* Time the iteration has taken when it reaches its final sleep.
Elapsed == clock - loop_start

Max(a, b) == IF a > b THEN a ELSE b

\* C21: the sleep that ends a submitting iteration lasts
\* max(0, interval - elapsed), so the next iteration starts one interval
\* after this one began, or at once when the work took longer.
C21_FixedTickScheduler ==
    [][ (/\ ctl_pc = "sleep_interval"
         /\ clock + DECISION_INTERVAL <= MaxClock
         /\ CoordSleep) =>
           clock' = loop_start + Max(DECISION_INTERVAL, Elapsed) ]_vars

CoordCommits ==
    /\ \E ok \in BOOLEAN : CoordSubmit("ok", ok)
    /\ Len(green_times) = NUM_LANES

\* C22: no proposal of the coordinator is committed to next_green, or sent
\* as NEXT_GREEN, at a moment when the store's beacon is true.
C22_NoProposalWhileActive ==
    [][ CoordCommits => ~beacon ]_vars

\* The policy throws, or its action vector has not 4 elements or holds NaN.
PolicyMalformed(out) ==
    \/ out[1] = "throw"
    \/ Len(out[2]) # NUM_LANES
    \/ \E i \in DOMAIN out[2] : out[2][i] = NaN

\* C23: when the policy throws or returns malformed output, the coordinator
\* goes on to submit the default allocation in the same iteration.
C23_PolicyErrorGivesDefault ==
    [][ \A out \in PolicyOutputs, d \in PolicyDurations :
           (PolicyMalformed(out) /\ CoordPolicy(out, d)) =>
              /\ green_times' = DefaultGreens
              /\ ctl_pc' = "submit" ]_vars

FailedExchange ==
    ctl_log \in {"fetch_status", "fetch_error", "submit_error"}

Submitted ==
    ctl_pc = "sleep_interval" /\ ctl_log \in {"submitted", "rejected"}

\* C24: after a failed fetch or submit the coordinator sleeps and then is
\* back at its fetch; and if from some time on the service answers and the
\* beacon is idle, the coordinator submits again and again.
C24_LoopSurvivesFailures ==
    /\ (FailedExchange /\ Sleeping) ~> (ctl_pc = "fetch")
    /\ <>[](service_up /\ ~beacon) => []<>Submitted

C24_Witness ==
    /\ ctl_log = "fetch_error"
    /\ ctl_pc = "fetch"
    /\ service_up /\ ~beacon

\* The state fetched in this iteration shows an active beacon.
SnapshotActive == data.beacon /\ data.priority_lane # None

\* C33: an iteration whose fetched state shows the beacon active goes from
\* the beacon test to the short sleep and from there to the next fetch,
\* SLEEP_BEACON later; the policy and the submit are reached only in an
\* iteration whose fetched state shows no active beacon.
C33_ActiveSnapshotSkips ==
    [][ /\ (ctl_pc = "check" /\ SnapshotActive /\ ctl_pc' # ctl_pc) =>
              /\ ctl_pc' = "sleep_beacon"
              /\ UNCHANGED <<next_green, prev_green, green_times, event>>
        /\ (ctl_pc = "sleep_beacon" /\ ctl_pc' # ctl_pc) =>
              /\ ctl_pc' = "fetch"
              /\ clock' = After(SLEEP_BEACON)
              /\ UNCHANGED <<next_green, prev_green, green_times, event>>
        /\ (ctl_pc' \in {"policy", "submit"}) => ~SnapshotActive' ]_vars

C33_Witness ==
    /\ ctl_log = "skipped"
    /\ ctl_pc = "fetch"
    /\ data.beacon /\ beacon
    /\ clock = loop_start + SLEEP_BEACON

\* The coordinator beside every way the beacon is set and cleared, with the
\* service answering and the link open or not.  The coordinator is a running
\* process: each of its steps is taken when it stays possible.  What the
\* policy answers plays no part: it raises, and the default allocation is
\* submitted.
SuppressPolicy == <<"throw", <<>>>>

NextSuppress ==
    \/ CoordFetch("ok")
    \/ CoordCheck
    \/ CoordPolicy(SuppressPolicy, 2)
    \/ CoordSubmit("ok", TRUE)
    \/ CoordSleep
    \/ SetLane(I(0), TRUE)
    \/ ClearBeacon
    \/ SerialLine(<<"BEACON_CLEAR", Null>>, TRUE)

SpecSuppress ==
    /\ Init
    /\ [][NextSuppress]_vars
    /\ WF_vars(CoordFetch("ok"))
    /\ WF_vars(CoordCheck)
    /\ WF_vars(CoordPolicy(SuppressPolicy, 2))
    /\ WF_vars(CoordSubmit("ok", TRUE))
    /\ WF_vars(CoordSleep)

ClearingStep == ClearBeacon \/ ClearLine

----------------------------------------------------------------------------
\* The observation the coordinator builds from the state it fetched
\* (traffic_controller.py:56-81, called at line 124).  Its elements are kept
\* exactly, in thousandths; the rounding to float32 is left out.

MAX_DENSITY == 50
MAX_HALTING == 50
OBS_SIZE == 20

\* min(n / max, 1.0), in thousandths.
NormCapped(n, max) == IF n > max THEN 1000 ELSE (1000 * n) \div max

\* list[i] if i < len(list) else 0, with i counted from 1.
ItemOr0(list, i) == IF i <= Len(list) THEN list[i] ELSE 0

\* The four elements appended for lane i (lines 63-68).
LaneObs(d, i) ==
    <<NormCapped(ItemOr0(d.density, i), MAX_DENSITY),
      NormCapped(ItemOr0(d.density_after, i), MAX_DENSITY),
      0,
      0>>

\* (g - GREEN_MIN) / (GREEN_MAX - GREEN_MIN) for g in prev_green (line 72).
GreenAllocNorm(pg) ==
    [k \in DOMAIN pg |->
        (1000 * (pg[k] - GREEN_MIN)) \div (GREEN_MAX - GREEN_MIN)]

\* Lines 76-80: cut or zero-padded to 20 elements.
FitObs(o) ==
    IF Len(o) > OBS_SIZE THEN SubSeq(o, 1, OBS_SIZE)
    ELSE o \o [k \in 1 .. (OBS_SIZE - Len(o)) |-> 0]

CreateObservation(d) ==
    IF d = None THEN None
    ELSE FitObs(LaneObs(d, 1) \o LaneObs(d, 2) \o LaneObs(d, 3)
                \o LaneObs(d, 4) \o GreenAllocNorm(d.prev_green))

\* The states GET /get can answer with, as far as the coordinator reads
\* them.
ObsSnapshots ==
    [beacon : {FALSE}, priority_lane : {None},
     density : {<<0, 0, 0, 0>>, <<10, 25, 50, 60>>, <<-5, 1, 3, 7>>},
     density_after : {<<0, 0, 0, 0>>, <<2, 4, 6, 8>>, <<55, 0, 0, 0>>},
     halting : {<<0, 0, 0, 0>>, <<10, 0, 60, 5>>, <<50, 50, 50, 50>>},
     prev_green : {<<30, 30, 30, 30>>, <<25, 35, 28, 33>>}]
    \cup
    [beacon : {TRUE}, priority_lane : {I(0)},
     density : {<<0, 0, 0, 0>>, <<10, 25, 50, 60>>},
     density_after : {<<0, 0, 0, 0>>},
     halting : {<<0, 0, 0, 0>>, <<10, 0, 60, 5>>},
     prev_green : {<<30, 30, 30, 30>>}]

\* obs = create_observation_from_data(data) (line 124).
BuildObservation ==
    /\ ctl_pc = "policy"
    /\ obs = <<>>
    /\ obs' = CreateObservation(data)
    /\ UNCHANGED <<storeVars, linkVars, now, event, thrVars, req_green,
                   validated_green, green_times, red_times, val_raised,
                   reclamped, coordVars>>

\* The coordinator with a fetched state in hand.
InitObserve ==
    /\ beacon = FALSE
    /\ priority_lane = None
    /\ beacon_start_time = 0
    /\ next_green = <<30, 30, 30, 30>>
    /\ prev_green = <<30, 30, 30, 30>>
    /\ latency_ms = 0
    /\ last_update = 0
    /\ InitSensors
    /\ buffer = <<>>
    /\ ser_open = TRUE
    /\ reader_running = TRUE
    /\ esp_start_time = 0
    /\ last_esp_data_time = 0
    /\ now = 0
    /\ event = <<"start", 0, None>>
    /\ lock = None
    /\ thr = NoThreads
    /\ acq = <<>>
    /\ wrote = <<>>
    /\ req_green = <<>>
    /\ validated_green = <<>>
    /\ green_times = <<>>
    /\ red_times = <<>>
    /\ val_raised = FALSE
    /\ reclamped = FALSE
    /\ obs = <<>>
    /\ ctl_pc = "check"
    /\ data \in ObsSnapshots
    /\ loop_start = 0
    /\ ctl_latency_ms = 0
    /\ ctl_log = "fetched"
    /\ clock = 0
    /\ service_up = TRUE

NextObserve ==
    \/ CoordCheck
    \/ BuildObservation

SpecObserve == InitObserve /\ [][NextObserve]_vars

\* The elements of lane i with the halting count in the third place.
LaneObsWithHalting(d, i) ==
    <<NormCapped(ItemOr0(d.density, i), MAX_DENSITY),
      NormCapped(ItemOr0(d.density_after, i), MAX_DENSITY),
      NormCapped(ItemOr0(d.halting, i), MAX_HALTING),
      0>>

\* The observation has been built from the fetched state.
Observed == ctl_pc = "policy" /\ obs # <<>>

\* C34: the observation has exactly 20 elements; for each lane i they hold
\* min(density[i] / MAX_DENSITY, 1), min(density_after[i] / MAX_DENSITY, 1)
\* and min(halting[i] / MAX_HALTING, 1) of the fetched state, and the last
\* four are the previous greens as (g - GREEN_MIN) / (GREEN_MAX - GREEN_MIN).
C34_ObservationHasHalting ==
    Observed =>
       /\ Len(obs) = OBS_SIZE
       /\ \A i \in 1 .. NUM_LANES :
             /\ SubSeq(obs, 4 * i - 3, 4 * i - 1) =
                   SubSeq(LaneObsWithHalting(data, i), 1, 3)
             /\ obs[4 * NUM_LANES + i] = GreenAllocNorm(data.prev_green)[i]

----------------------------------------------------------------------------
\* Request threads: set_lane statement by statement (backend.py:183-199).
\* thr[t] holds the thread's position, the lane of its request, the value
\* time.time() returned to it and the command it wrote; acq is the order in
\* which threads entered the critical section, wrote the order in which
\* their commands reached the link.

Threads == {1, 2}

LockAlwaysFree(t) == TRUE

\* "with lock:" is entered only when no thread holds the lock.
LockFree(t) == lock = None

At(t, pc) == thr[t].pc = pc

Goto(t, pc) == thr' = [thr EXCEPT ![t].pc = pc]

T_Acquire(t) ==
    /\ At(t, "acquire")
    /\ LockFree(t)
    /\ lock' = <<t>>
    /\ acq' = Append(acq, t)
    /\ Goto(t, "set_beacon")
    /\ UNCHANGED <<storeVars, linkVars, now, event, wrote, valVars,
                   coordVars>>

T_SetBeacon(t) ==
    /\ At(t, "set_beacon")
    /\ beacon' = TRUE
    /\ Goto(t, "set_priority_lane")
    /\ UNCHANGED <<priority_lane, beacon_start_time, next_green, prev_green,
                   latency_ms, last_update>>
    /\ UNCHANGED <<sensorVars, linkVars, now, event, lock, acq, wrote, valVars,
                   coordVars>>

T_SetPriorityLane(t) ==
    /\ At(t, "set_priority_lane")
    /\ priority_lane' = I(thr[t].lane)
    /\ Goto(t, "set_start_time")
    /\ UNCHANGED <<beacon, beacon_start_time, next_green, prev_green,
                   latency_ms, last_update>>
    /\ UNCHANGED <<sensorVars, linkVars, now, event, lock, acq, wrote, valVars,
                   coordVars>>

T_SetStartTime(t) ==
    /\ At(t, "set_start_time")
    /\ beacon_start_time' = now
    /\ thr' = [thr EXCEPT ![t].pc = "write", ![t].stamp = now]
    /\ UNCHANGED <<beacon, priority_lane, next_green, prev_green,
                   latency_ms, last_update>>
    /\ UNCHANGED <<sensorVars, linkVars, now, event, lock, acq, wrote, valVars,
                   coordVars>>

T_Write(t, ok) ==
    /\ At(t, "write")
    /\ thr' = [thr EXCEPT ![t].pc = "release",
                          ![t].sent = Written(<<"PRIORITY", I(thr[t].lane)>>,
                                              ok)]
    /\ wrote' = IF ser_open /\ ok THEN Append(wrote, t) ELSE wrote
    /\ UNCHANGED <<storeVars, linkVars, now, event, lock, acq, valVars,
                   coordVars>>

T_Release(t) ==
    /\ At(t, "release")
    /\ lock' = None
    /\ Goto(t, "respond")
    /\ UNCHANGED <<storeVars, linkVars, now, event, acq, wrote, valVars,
                   coordVars>>

T_Respond(t) ==
    /\ At(t, "respond")
    /\ event' = Exchange("set_lane", 200, thr[t].sent)
    /\ Goto(t, "done")
    /\ UNCHANGED <<storeVars, linkVars, now, lock, acq, wrote, valVars,
                   coordVars>>

InitConc ==
    /\ beacon = FALSE
    /\ priority_lane = None
    /\ beacon_start_time = 0
    /\ next_green = <<30, 30, 30, 30>>
    /\ prev_green = <<30, 30, 30, 30>>
    /\ latency_ms = 0
    /\ last_update = 0
    /\ InitSensors
    /\ InitCoordinator
    /\ buffer = <<>>
    /\ ser_open \in BOOLEAN
    /\ reader_running = ser_open
    /\ esp_start_time = 0
    /\ last_esp_data_time = 0
    /\ now = 0
    /\ event = <<"start", 0, None>>
    /\ lock = None
    /\ \E lanes \in [Threads -> Lanes] :
          /\ \A t, u \in Threads : t # u => lanes[t] # lanes[u]
          /\ thr = [t \in Threads |->
                      [pc |-> "acquire", lane |-> lanes[t], stamp |-> 0,
                       sent |-> None]]
    /\ acq = <<>>
    /\ wrote = <<>>
    /\ req_green = <<>>
    /\ validated_green = <<>>
    /\ green_times = <<>>
    /\ red_times = <<>>
    /\ val_raised = FALSE
    /\ reclamped = FALSE
    /\ obs = <<>>

NextConc ==
    \/ \E t \in Threads : T_Acquire(t)
    \/ \E t \in Threads : T_SetBeacon(t)
    \/ \E t \in Threads : T_SetPriorityLane(t)
    \/ \E t \in Threads : T_SetStartTime(t)
    \/ \E t \in Threads, ok \in BOOLEAN : T_Write(t, ok)
    \/ \E t \in Threads : T_Release(t)
    \/ \E t \in Threads : T_Respond(t)
    \/ \E d \in TickSteps : Tick(d)

SpecConc == InitConc /\ [][NextConc]_vars

LastEntered == acq[Len(acq)]

\* C8: with two concurrent activate requests for different lanes, whenever
\* no request is inside the critical section (in particular when both have
\* finished) beacon is true and priority_lane and beacon_start_time are the
\* ones written by the request that entered the critical section last.
C8_OneActivationWins ==
    (lock = None /\ acq # <<>>) =>
       /\ beacon
       /\ priority_lane = I(thr[LastEntered].lane)
       /\ beacon_start_time = thr[LastEntered].stamp

C8_Witness ==
    /\ \A t \in Threads : At(t, "done")
    /\ thr[1].stamp # thr[2].stamp
    /\ LastEntered = 1
    /\ priority_lane = I(thr[1].lane)
    /\ beacon_start_time = thr[1].stamp

\* C19: a thread that is inside a write to the serial link does not own the
\* lock.
C19_SerialWriteOutsideLock ==
    \A t \in Threads : (At(t, "write") /\ ser_open) => lock # <<t>>

----------------------------------------------------------------------------
\* Concurrent propose and activate requests: set_next_cycle statement by
\* statement (backend.py:225-242) beside set_lane.  A proposing thread
\* holds the validated_green it computed before the lock (lines 213-223) and
\* the latency of its request.

Proposers == {3, 4}

P_AcquireUnlocked(t) ==
    /\ At(t, "acquire")
    /\ lock' = <<t>>
    /\ acq' = Append(acq, t)
    /\ Goto(t, "set_prev_green")
    /\ UNCHANGED <<storeVars, linkVars, now, event, wrote, valVars,
                   coordVars>>

P_Acquire(t) ==
    /\ At(t, "acquire")
    /\ LockFree(t)
    /\ lock' = <<t>>
    /\ acq' = Append(acq, t)
    /\ Goto(t, "set_prev_green")
    /\ UNCHANGED <<storeVars, linkVars, now, event, wrote, valVars,
                   coordVars>>

P_SetPrevGreen(t) ==
    /\ At(t, "set_prev_green")
    /\ prev_green' = next_green
    /\ Goto(t, "set_next_green")
    /\ UNCHANGED <<beacon, priority_lane, beacon_start_time, next_green,
                   latency_ms, last_update>>
    /\ UNCHANGED <<sensorVars, linkVars, now, event, lock, acq, wrote, valVars,
                   coordVars>>

P_SetNextGreen(t) ==
    /\ At(t, "set_next_green")
    /\ next_green' = thr[t].green
    /\ Goto(t, "set_latency")
    /\ UNCHANGED <<beacon, priority_lane, beacon_start_time, prev_green,
                   latency_ms, last_update>>
    /\ UNCHANGED <<sensorVars, linkVars, now, event, lock, acq, wrote, valVars,
                   coordVars>>

P_SetLatency(t) ==
    /\ At(t, "set_latency")
    /\ latency_ms' = thr[t].lat
    /\ Goto(t, "write")
    /\ UNCHANGED <<beacon, priority_lane, beacon_start_time, next_green,
                   prev_green, last_update>>
    /\ UNCHANGED <<sensorVars, linkVars, now, event, lock, acq, wrote, valVars,
                   coordVars>>

P_Write(t, ok) ==
    /\ At(t, "write")
    /\ thr' = [thr EXCEPT ![t].pc = "release",
                          ![t].sent = Written(<<"NEXT_GREEN", thr[t].green>>,
                                              ok)]
    /\ wrote' = IF ser_open /\ ok THEN Append(wrote, t) ELSE wrote
    /\ UNCHANGED <<storeVars, linkVars, now, event, lock, acq, valVars,
                   coordVars>>

P_Respond(t) ==
    /\ At(t, "respond")
    /\ event' = Exchange("set_next_cycle", 200, thr[t].sent)
    /\ Goto(t, "done")
    /\ UNCHANGED <<storeVars, linkVars, now, lock, acq, wrote, valVars,
                   coordVars>>

\* Two activate requests and two propose requests in flight, the link open.
InitWire ==
    /\ beacon = FALSE
    /\ priority_lane = None
    /\ beacon_start_time = 0
    /\ next_green = <<30, 30, 30, 30>>
    /\ prev_green = <<30, 30, 30, 30>>
    /\ latency_ms = 0
    /\ last_update = 0
    /\ InitSensors
    /\ InitCoordinator
    /\ buffer = <<>>
    /\ ser_open = TRUE
    /\ reader_running = TRUE
    /\ esp_start_time = 0
    /\ last_esp_data_time = 0
    /\ now = 0
    /\ event = <<"start", 0, None>>
    /\ lock = None
    /\ thr = [t \in Threads \cup Proposers |->
                IF t \in Threads
                THEN [pc |-> "acquire", lane |-> 2 * t - 1, stamp |-> 0,
                      sent |-> None]
                ELSE [pc |-> "acquire",
                      green |-> BackendValidate(
                                   <<I(17 + t), I(30), I(30), I(37 - t)>>),
                      lat |-> 10 * t, sent |-> None]]
    /\ acq = <<>>
    /\ wrote = <<>>
    /\ req_green = <<>>
    /\ validated_green = <<>>
    /\ green_times = <<>>
    /\ red_times = <<>>
    /\ val_raised = FALSE
    /\ reclamped = FALSE
    /\ obs = <<>>

NextWire ==
    \/ \E t \in Threads : T_Acquire(t)
    \/ \E t \in Threads : T_SetBeacon(t)
    \/ \E t \in Threads : T_SetPriorityLane(t)
    \/ \E t \in Threads : T_SetStartTime(t)
    \/ \E t \in Threads : T_Write(t, TRUE)
    \/ \E t \in Threads : T_Respond(t)
    \/ \E t \in Proposers : P_Acquire(t)
    \/ \E t \in Proposers : P_SetPrevGreen(t)
    \/ \E t \in Proposers : P_SetNextGreen(t)
    \/ \E t \in Proposers : P_SetLatency(t)
    \/ \E t \in Proposers : P_Write(t, TRUE)
    \/ \E t \in Proposers : P_Respond(t)
    \/ \E t \in Threads \cup Proposers : T_Release(t)

SpecWire == InitWire /\ [][NextWire]_vars

\* The last thread of S in the sequence q.
LastOf(q, S) ==
    q[CHOOSE i \in DOMAIN q :
         q[i] \in S /\ \A j \in DOMAIN q : q[j] \in S => j <= i]

Some(q, S) == \E i \in DOMAIN q : q[i] \in S

\* No thread of S is inside its critical section.
NoneInside(S) == lock = None \/ lock[1] \notin S

\* C37: with the link open and the writes succeeding, whenever no propose
\* request is inside its critical section the last NEXT_GREEN command
\* written is the stored next_green, and whenever no activate request is
\* inside its critical section the last PRIORITY command written names the
\* lane committed by the activate request that committed last.
C37_WireFollowsCommits ==
    /\ (NoneInside(Proposers) /\ Some(wrote, Proposers)) =>
          thr[LastOf(wrote, Proposers)].sent = <<"NEXT_GREEN", next_green>>
    /\ (NoneInside(Threads) /\ Some(wrote, Threads)) =>
          /\ thr[LastOf(wrote, Threads)].sent =
                <<"PRIORITY", I(thr[LastOf(acq, Threads)].lane)>>
          /\ priority_lane = I(thr[LastOf(acq, Threads)].lane)

C37_Witness ==
    /\ \A t \in Threads \cup Proposers : At(t, "done")
    /\ acq = <<4, 1, 3, 2>>
    /\ wrote = acq
    /\ next_green = thr[3].green
    /\ priority_lane = I(thr[2].lane)

----------------------------------------------------------------------------
\* get_status statement by statement (backend.py:266-285) beside the reader
\* and the clock.  The request thread holds current_time, the flag it
\* computed and the body it answered with.

StatusThreads == {5}

\* ser and ser.is_open and (current_time - last_esp_data_time) < 5.0, with
\* the current_time of the request.
EspConnectedAt(ct) ==
    IF ~ser_open THEN Null
    ELSE Bool(ct - last_esp_data_time < HEARTBEAT_TIMEOUT)

\* current_time = time.time() (line 268)
S_Clock(t) ==
    /\ At(t, "clock")
    /\ thr' = [thr EXCEPT ![t].pc = "flag", ![t].current_time = now]
    /\ UNCHANGED <<storeVars, linkVars, now, event, lock, acq, wrote, valVars,
                   coordVars>>

\* esp_connected = ... (line 269), before the lock is taken.
S_Flag(t) ==
    /\ At(t, "flag")
    /\ thr' = [thr EXCEPT
                 ![t].pc = "respond",
                 ![t].esp_connected = EspConnectedAt(thr[t].current_time)]
    /\ UNCHANGED <<storeVars, linkVars, now, event, lock, acq, wrote, valVars,
                   coordVars>>

\* The body built under the lock (lines 271-285): the heartbeat time is
\* read again, the flag is the one computed before.
S_Respond(t) ==
    /\ At(t, "respond")
    /\ LockFree(t)
    /\ thr' = [thr EXCEPT
                 ![t].pc = "done",
                 ![t].body =
                    [esp_connected |-> thr[t].esp_connected,
                     serial_port |-> ser_open,
                     last_update |-> last_esp_data_time,
                     time_since_update |->
                        thr[t].current_time - last_esp_data_time]]
    /\ event' = <<"get_status", 200, None, thr[t].esp_connected>>
    /\ UNCHANGED <<storeVars, linkVars, now, lock, acq, wrote, valVars,
                   coordVars>>

InitStatusConc ==
    /\ beacon = FALSE
    /\ priority_lane = None
    /\ beacon_start_time = 0
    /\ next_green = <<30, 30, 30, 30>>
    /\ prev_green = <<30, 30, 30, 30>>
    /\ latency_ms = 0
    /\ last_update = 0
    /\ InitSensors
    /\ InitCoordinator
    /\ buffer = <<>>
    /\ ser_open \in BOOLEAN
    /\ reader_running = ser_open
    /\ esp_start_time = 0
    /\ last_esp_data_time = 0
    /\ now = 0
    /\ event = <<"start", 0, None>>
    /\ lock = None
    /\ thr = [t \in StatusThreads |->
                [pc |-> "clock", current_time |-> 0, esp_connected |-> Null,
                 body |-> None]]
    /\ acq = <<>>
    /\ wrote = <<>>
    /\ req_green = <<>>
    /\ validated_green = <<>>
    /\ green_times = <<>>
    /\ red_times = <<>>
    /\ val_raised = FALSE
    /\ reclamped = FALSE
    /\ obs = <<>>

NextStatusConc ==
    \/ \E t \in StatusThreads : S_Clock(t)
    \/ \E t \in StatusThreads : S_Flag(t)
    \/ \E t \in StatusThreads : S_Respond(t)
    \/ \E reopened \in BOOLEAN : SerialLine(<<"UNKNOWN", Null>>, reopened)
    \/ \E reopened \in BOOLEAN : ReaderReadFails(reopened)
    \/ \E d \in TickSteps : Tick(d)

SpecStatusConc == InitStatusConc /\ [][NextStatusConc]_vars

\* C38: in every get status response the reported age is not negative and
\* the connectivity flag is true exactly when the link is reported open and
\* the age reported in the same response is below 5 s.
C38_StatusIsOneSnapshot ==
    \A t \in StatusThreads :
       At(t, "done") =>
          /\ thr[t].body.time_since_update >= 0
          /\ Truthy(thr[t].body.esp_connected) <=>
                (/\ thr[t].body.serial_port
                 /\ thr[t].body.time_since_update < HEARTBEAT_TIMEOUT)

====
